---- MODULE Spec2Model ----
\* Model of src/src/AppInstallerRepositoryCore/SQLiteWrapper.cpp:
\* Connection, Statement and Savepoint over the native SQLite engine.
\* The engine side (the sqlite3 calls) is modelled by what the documented
\* calls do: a savepoint stack with snapshots, and a prepared-statement cursor.
EXTENDS Integers, Sequences, FiniteSets, TLC

\* ---------------------------------------------------------------- bounds
MaxSavepoints == 3      \* Savepoint objects created during one run
MaxFaultySavepoints == 2 \* the same, in runs with injected native faults
NumNames == 2           \* distinct savepoint names the caller uses
MaxRows == 1            \* rows the caller inserts during one run
MaxBind == 2            \* largest value bound to the query parameter
MaxSteps == 4           \* Step() calls on the query Statement during one run
FlagBits == 3           \* bits of the open disposition and flag masks
IdBits == 4             \* width of the statement id counter (size_t)
NumThreads == 2         \* threads creating Statements
MaxTextLen == 2         \* bytes in a text value
IntBits == 2            \* width of int; int64_t has one bit more

SavepointIds == 1..MaxSavepoints
Names == 1..NumNames
Rows == 1..MaxRows

VARIABLES
    proc,           \* "running" | "terminated" (FAIL_FAST_MSG reached)
    conn,           \* the Connection object and its native handle
    db,             \* engine: contents visible on the connection (set of rows)
    stack,          \* engine: stack of open savepoints, oldest first
    statementId,    \* static std::atomic_size_t statementId
    sp,             \* the Savepoint objects, by creation index
    stmt,           \* one caller-owned query Statement
    nextRow,        \* next fresh row the caller inserts
    threads,        \* per thread: the Statement it is constructing
    allocated,      \* the ids handed out, in the order of the increments
    prepared,       \* what the last Statement::Create gave the native prepare
    cols,           \* a Statement with typed parameters read back as columns
    last            \* what the caller saw from the last operation

vars == <<proc, conn, db, stack, statementId, sp, stmt, nextRow,
          threads, allocated, prepared, cols, last>>

\* the variables the single-threaded Connection/Statement/Savepoint calls
\* leave alone
sideVars == <<threads, allocated, prepared, cols>>

\* ------------------------------------------------- native status classes
StepCodes == {"SQLITE_ROW", "SQLITE_DONE"}
ErrorCodes == {"SQLITE_ERROR", "SQLITE_IOERR", "SQLITE_MISUSE"}

Max(S) == CHOOSE x \in S : \A y \in S : y <= x

\* ------------------------------------------------------------- Statement
\* A default-constructed Statement: no handle, state Prepared.
NullStatement ==
    [m_id |-> 0, m_stmt |-> "null", m_state |-> "Prepared",
     kind |-> "none", name |-> 0,
     vm |-> "ready", bound |-> 0, delivered |-> 0,
     steps |-> 0, finalized |-> 0, usedAfterRelease |-> FALSE]

\* Counter that is returned without being incremented.
GetNextStatementId_Stuck(counter) == counter

\* static std::atomic_size_t statementId: return ++statementId, one atomic
\* read-modify-write on an unsigned integer of IdBits bits
GetNextStatementId(counter) == (counter + 1) % (2^IdBits)

\* Statement::Statement: take an id, then prepare; a failed prepare throws
\* and leaves no handle (m_stmt stays null).
StatementCtor(counter, kind, name, prepareFails) ==
    [NullStatement EXCEPT
        !.m_id = GetNextStatementId(counter),
        !.kind = kind,
        !.name = name,
        !.m_stmt = IF prepareFails THEN "null" ELSE "live"]

\* scope end of a Statement: the owning handle wrapper finalizes a non-null
\* handle.
Finalize(s) ==
    IF s.m_stmt = "null" THEN s
    ELSE [s EXCEPT !.m_stmt = "finalized", !.finalized = @ + 1]

\* ---------------------------------------------------------------- engine
\* index of the most recent open savepoint with this name, 0 if none
FindSavepoint(stk, n) ==
    IF \A k \in 1..Len(stk) : stk[k].name # n THEN 0
    ELSE Max({k \in 1..Len(stk) : stk[k].name = n})

\* rows the query yields for the currently bound parameter
QueryRows(s) == s.bound

\* sqlite3_step on statement s: the native status and the engine afterwards.
\* A halted statement is reset automatically before it runs again.
sqlite3_step(s, curDb, curStack, fault) ==
    LET Run(k, from) ==
            IF s.m_stmt # "live" THEN
                [rc |-> "SQLITE_MISUSE", db |-> curDb, stack |-> curStack,
                 vm |-> s.vm, delivered |-> s.delivered]
            ELSE IF fault THEN
                [rc |-> "SQLITE_IOERR", db |-> curDb, stack |-> curStack,
                 vm |-> "halt", delivered |-> from]
            ELSE IF s.kind = "SAVEPOINT" THEN
                [rc |-> "SQLITE_DONE", db |-> curDb,
                 stack |-> Append(curStack, [name |-> s.name, snap |-> curDb]),
                 vm |-> "halt", delivered |-> 0]
            ELSE IF s.kind = "ROLLBACK TO" THEN
                IF k = 0 THEN
                    [rc |-> "SQLITE_ERROR", db |-> curDb, stack |-> curStack,
                     vm |-> "halt", delivered |-> 0]
                ELSE
                    [rc |-> "SQLITE_DONE", db |-> curStack[k].snap,
                     stack |-> SubSeq(curStack, 1, k),
                     vm |-> "halt", delivered |-> 0]
            ELSE IF s.kind = "RELEASE" THEN
                IF k = 0 THEN
                    [rc |-> "SQLITE_ERROR", db |-> curDb, stack |-> curStack,
                     vm |-> "halt", delivered |-> 0]
                ELSE
                    [rc |-> "SQLITE_DONE", db |-> curDb,
                     stack |-> SubSeq(curStack, 1, k - 1),
                     vm |-> "halt", delivered |-> 0]
            ELSE IF s.kind = "INSERT" THEN
                [rc |-> "SQLITE_DONE", db |-> curDb \cup {s.bound},
                 stack |-> curStack, vm |-> "halt", delivered |-> 0]
            ELSE \* "SELECT"
                IF from < QueryRows(s) THEN
                    [rc |-> "SQLITE_ROW", db |-> curDb, stack |-> curStack,
                     vm |-> "run", delivered |-> from + 1]
                ELSE
                    [rc |-> "SQLITE_DONE", db |-> curDb, stack |-> curStack,
                     vm |-> "halt", delivered |-> from]
    IN Run(FindSavepoint(curStack, s.name),
           IF s.vm = "halt" THEN 0 ELSE s.delivered)

\* the statement after a native step with result n
Stepped(s, n) ==
    [s EXCEPT !.vm = n.vm, !.delivered = n.delivered, !.steps = @ + 1,
              !.usedAfterRelease = @ \/ (s.m_stmt = "finalized")]

\* Step with the fail-fast flag ignored: every failure is thrown.
Step_IgnoresFailFast(s, curDb, curStack, fault, failFastOnError) ==
    LET Result(n) ==
            LET t == Stepped(s, n) IN
            IF n.rc = "SQLITE_ROW" THEN
                [stmt |-> [t EXCEPT !.m_state = "HasRow"], out |-> "true",
                 rc |-> n.rc, error |-> "none", db |-> n.db, stack |-> n.stack]
            ELSE IF n.rc = "SQLITE_DONE" THEN
                [stmt |-> [t EXCEPT !.m_state = "Completed"], out |-> "false",
                 rc |-> n.rc, error |-> "none", db |-> n.db, stack |-> n.stack]
            ELSE
                [stmt |-> [t EXCEPT !.m_state = "Error"], out |-> "throw",
                 rc |-> n.rc, error |-> n.rc, db |-> n.db, stack |-> n.stack]
    IN Result(sqlite3_step(s, curDb, curStack, fault))

\* Step that forgets to set the state tag when a row is available.
Step_KeepsStateOnRow(s, curDb, curStack, fault, failFastOnError) ==
    LET Result(n) ==
            LET t == Stepped(s, n) IN
            IF n.rc = "SQLITE_ROW" THEN
                [stmt |-> t, out |-> "true",
                 rc |-> n.rc, error |-> "none", db |-> n.db, stack |-> n.stack]
            ELSE IF n.rc = "SQLITE_DONE" THEN
                [stmt |-> [t EXCEPT !.m_state = "Completed"], out |-> "false",
                 rc |-> n.rc, error |-> "none", db |-> n.db, stack |-> n.stack]
            ELSE
                [stmt |-> [t EXCEPT !.m_state = "Error"],
                 out |-> IF failFastOnError THEN "failfast" ELSE "throw",
                 rc |-> n.rc,
                 error |-> IF failFastOnError THEN "none" ELSE n.rc,
                 db |-> n.db, stack |-> n.stack]
    IN Result(sqlite3_step(s, curDb, curStack, fault))

\* Step that takes SQLITE_DONE for a row.
Step_DoneIsRow(s, curDb, curStack, fault, failFastOnError) ==
    LET Result(n) ==
            LET t == Stepped(s, n) IN
            IF n.rc \in {"SQLITE_ROW", "SQLITE_DONE"} THEN
                [stmt |-> [t EXCEPT !.m_state = "HasRow"], out |-> "true",
                 rc |-> n.rc, error |-> "none", db |-> n.db, stack |-> n.stack]
            ELSE
                [stmt |-> [t EXCEPT !.m_state = "Error"],
                 out |-> IF failFastOnError THEN "failfast" ELSE "throw",
                 rc |-> n.rc,
                 error |-> IF failFastOnError THEN "none" ELSE n.rc,
                 db |-> n.db, stack |-> n.stack]
    IN Result(sqlite3_step(s, curDb, curStack, fault))

\* Statement::Step: one native step, then the state tag and the outcome.
\* out: "true" | "false" | "throw" | "failfast"
Step(s, curDb, curStack, fault, failFastOnError) ==
    LET Result(n) ==
            LET t == Stepped(s, n) IN
            IF n.rc = "SQLITE_ROW" THEN
                [stmt |-> [t EXCEPT !.m_state = "HasRow"], out |-> "true",
                 rc |-> n.rc, error |-> "none", db |-> n.db, stack |-> n.stack]
            ELSE IF n.rc = "SQLITE_DONE" THEN
                [stmt |-> [t EXCEPT !.m_state = "Completed"], out |-> "false",
                 rc |-> n.rc, error |-> "none", db |-> n.db, stack |-> n.stack]
            ELSE
                [stmt |-> [t EXCEPT !.m_state = "Error"],
                 out |-> IF failFastOnError THEN "failfast" ELSE "throw",
                 rc |-> n.rc,
                 error |-> IF failFastOnError THEN "none" ELSE n.rc,
                 db |-> n.db, stack |-> n.stack]
    IN Result(sqlite3_step(s, curDb, curStack, fault))

\* Execute that returns normally when the step produced a row.
Execute_AcceptsRow(s, curDb, curStack, fault, failFastOnError) ==
    LET Check(r) ==
            IF r.out \in {"true", "false"} THEN [r EXCEPT !.out = "ok"]
            ELSE r
    IN Check(Step(s, curDb, curStack, fault, failFastOnError))

\* Statement::Execute: THROW_HR_IF(E_UNEXPECTED, Step(failFastOnError)).
\* out: "ok" | "throw" | "failfast"; error E_UNEXPECTED when Step returned true
Execute(s, curDb, curStack, fault, failFastOnError) ==
    LET Check(r) ==
            IF r.out = "true" THEN [r EXCEPT !.out = "throw", !.error = "E_UNEXPECTED"]
            ELSE IF r.out = "false" THEN [r EXCEPT !.out = "ok"]
            ELSE r
    IN Check(Step(s, curDb, curStack, fault, failFastOnError))

\* ------------------------------------------------------------ Connection
SQLITE_OPEN_READWRITE == 2
OpenCodes == {"SQLITE_OK", "SQLITE_CANTOPEN", "SQLITE_NOMEM"}
ExtCodes == {"SQLITE_OK", "SQLITE_MISUSE"}

\* a | b on non-negative ints
RECURSIVE BitOr(_, _)
BitOr(a, b) ==
    IF a = 0 THEN b
    ELSE IF b = 0 THEN a
    ELSE (IF a % 2 = 1 \/ b % 2 = 1 THEN 1 ELSE 0) + 2 * BitOr(a \div 2, b \div 2)

\* m_dbconn and what the native calls were given and answered
NullConnection ==
    [life |-> "unborn", m_dbconn |-> "null", closes |-> 0,
     disposition |-> 0, flags |-> 0,
     openCalls |-> 0, resultingFlags |-> 0, openRc |-> "none",
     extCalls |-> 0, extRc |-> "none"]

\* scope end of the connection handle wrapper: closes a non-null handle
Close(c) ==
    IF c.m_dbconn = "null" THEN c
    ELSE [c EXCEPT !.m_dbconn = "closed", !.closes = @ + 1]

\* Constructor that adds the two masks instead of or-ing them.
ConnectionCtor_AddsFlags(disposition, flags, openRc, handleGiven) ==
    LET opened == [NullConnection EXCEPT
                      !.disposition = disposition, !.flags = flags,
                      !.openCalls = 1,
                      !.resultingFlags = disposition + flags,
                      !.openRc = openRc,
                      !.m_dbconn = IF handleGiven THEN "open" ELSE "null"]
    IN IF openRc # "SQLITE_OK"
       THEN [obj |-> [Close(opened) EXCEPT !.life = "failed"],
             thrown |-> TRUE, error |-> openRc]
       ELSE [obj |-> [opened EXCEPT !.life = "alive"],
             thrown |-> FALSE, error |-> "none"]

\* Connection::Connection: sqlite3_open_v2 into m_dbconn with
\* disposition | flags; a status other than SQLITE_OK throws out of the
\* constructor, which destroys the member. A failed open may or may not have
\* produced a handle (handleGiven).
ConnectionCtor(disposition, flags, openRc, handleGiven) ==
    LET opened == [NullConnection EXCEPT
                      !.disposition = disposition, !.flags = flags,
                      !.openCalls = 1,
                      !.resultingFlags = BitOr(disposition, flags),
                      !.openRc = openRc,
                      !.m_dbconn = IF handleGiven THEN "open" ELSE "null"]
    IN IF openRc # "SQLITE_OK"
       THEN [obj |-> [Close(opened) EXCEPT !.life = "failed"],
             thrown |-> TRUE, error |-> openRc]
       ELSE [obj |-> [opened EXCEPT !.life = "alive"],
             thrown |-> FALSE, error |-> "none"]

\* Create that lets the opened handle escape when enabling extended result
\* codes fails.
ConnectionCreate_LeaksOnExtFailure(disposition, flags, openRc, handleGiven, extRc) ==
    LET Enable(c) ==
            IF c.thrown THEN c
            ELSE IF extRc # "SQLITE_OK"
            THEN [obj |-> [c.obj EXCEPT !.life = "failed",
                                        !.extCalls = 1, !.extRc = extRc],
                  thrown |-> TRUE, error |-> extRc]
            ELSE [c EXCEPT !.obj = [c.obj EXCEPT !.extCalls = 1, !.extRc = extRc]]
    IN Enable(ConnectionCtor(disposition, flags, openRc, handleGiven))

\* Connection::Create: construct, then sqlite3_extended_result_codes on the
\* handle; a failure there throws and the local result is destroyed.
ConnectionCreate(disposition, flags, openRc, handleGiven, extRc) ==
    LET Enable(c) ==
            IF c.thrown THEN c
            ELSE IF extRc # "SQLITE_OK"
            THEN [obj |-> [Close(c.obj) EXCEPT !.life = "failed",
                                               !.extCalls = 1, !.extRc = extRc],
                  thrown |-> TRUE, error |-> extRc]
            ELSE [c EXCEPT !.obj = [c.obj EXCEPT !.extCalls = 1, !.extRc = extRc]]
    IN Enable(ConnectionCtor(disposition, flags, openRc, handleGiven))

\* ------------------------------------------------------------- Savepoint
NullSavepoint ==
    [life |-> "unborn", m_name |-> 0, m_inProgress |-> TRUE,
     begin |-> NullStatement, m_rollback |-> NullStatement,
     m_commit |-> NullStatement,
     \* history kept for the properties, not program state:
     pre |-> {}, firstRow |-> 0, kept |-> {}]

\* Constructor that steps SAVEPOINT before it prepares RELEASE.
SavepointCtor_StepsBeforeRelease(counter, name, curDb, curStack, fBegin, fRollback, fCommit, fStep) ==
    LET Build(begin, rb, cm, base) ==
            LET Begin(r) ==
                    IF r.out = "throw" THEN
                        [obj |-> [base EXCEPT !.life = "failed",
                                              !.begin = Finalize(r.stmt),
                                              !.m_rollback = Finalize(rb),
                                              !.m_commit = Finalize(cm)],
                         thrown |-> TRUE, rc |-> r.rc, error |-> r.error,
                         db |-> r.db, stack |-> r.stack, counter |-> cm.m_id]
                    ELSE
                        [obj |-> [base EXCEPT !.life = "alive",
                                              !.begin = Finalize(r.stmt),
                                              !.m_rollback = rb, !.m_commit = cm],
                         thrown |-> FALSE, rc |-> r.rc, error |-> "none",
                         db |-> r.db, stack |-> r.stack, counter |-> cm.m_id]
            IN
            IF fBegin THEN
                [obj |-> [base EXCEPT !.life = "failed", !.begin = Finalize(begin)],
                 thrown |-> TRUE, rc |-> "none", error |-> "SQLITE_ERROR",
                 db |-> curDb, stack |-> curStack, counter |-> begin.m_id]
            ELSE IF fRollback THEN
                [obj |-> [base EXCEPT !.life = "failed", !.begin = Finalize(begin),
                                      !.m_rollback = Finalize(rb)],
                 thrown |-> TRUE, rc |-> "none", error |-> "SQLITE_ERROR",
                 db |-> curDb, stack |-> curStack, counter |-> rb.m_id]
            ELSE IF fCommit THEN
                [Begin(Step(begin, curDb, curStack, fStep, FALSE)) EXCEPT
                    !.obj.life = "failed", !.obj.m_rollback = Finalize(rb),
                    !.obj.m_commit = Finalize(cm),
                    !.thrown = TRUE, !.error = "SQLITE_ERROR"]
            ELSE Begin(Step(begin, curDb, curStack, fStep, FALSE))
    IN Build(StatementCtor(counter, "SAVEPOINT", name, fBegin),
             StatementCtor(GetNextStatementId(counter), "ROLLBACK TO", name, fRollback),
             StatementCtor(GetNextStatementId(GetNextStatementId(counter)),
                           "RELEASE", name, fCommit),
             [NullSavepoint EXCEPT !.m_name = name])

\* Savepoint::Savepoint: prepare the three statements, then step SAVEPOINT.
\* Any throw leaves the constructor, so the destructor body never runs for
\* this object; the statements built so far are destroyed.
SavepointCtor(counter, name, curDb, curStack, fBegin, fRollback, fCommit, fStep) ==
    LET Build(begin, rb, cm, base) ==
            LET Begin(r) ==
                    IF r.out = "throw" THEN
                        [obj |-> [base EXCEPT !.life = "failed",
                                              !.begin = Finalize(r.stmt),
                                              !.m_rollback = Finalize(rb),
                                              !.m_commit = Finalize(cm)],
                         thrown |-> TRUE, rc |-> r.rc, error |-> r.error,
                         db |-> r.db, stack |-> r.stack, counter |-> cm.m_id]
                    ELSE
                        [obj |-> [base EXCEPT !.life = "alive",
                                              !.begin = Finalize(r.stmt),
                                              !.m_rollback = rb, !.m_commit = cm],
                         thrown |-> FALSE, rc |-> r.rc, error |-> "none",
                         db |-> r.db, stack |-> r.stack, counter |-> cm.m_id]
            IN
            IF fBegin THEN
                [obj |-> [base EXCEPT !.life = "failed", !.begin = Finalize(begin)],
                 thrown |-> TRUE, rc |-> "none", error |-> "SQLITE_ERROR",
                 db |-> curDb, stack |-> curStack, counter |-> begin.m_id]
            ELSE IF fRollback THEN
                [obj |-> [base EXCEPT !.life = "failed", !.begin = Finalize(begin),
                                      !.m_rollback = Finalize(rb)],
                 thrown |-> TRUE, rc |-> "none", error |-> "SQLITE_ERROR",
                 db |-> curDb, stack |-> curStack, counter |-> rb.m_id]
            ELSE IF fCommit THEN
                [obj |-> [base EXCEPT !.life = "failed", !.begin = Finalize(begin),
                                      !.m_rollback = Finalize(rb),
                                      !.m_commit = Finalize(cm)],
                 thrown |-> TRUE, rc |-> "none", error |-> "SQLITE_ERROR",
                 db |-> curDb, stack |-> curStack, counter |-> cm.m_id]
            ELSE Begin(Step(begin, curDb, curStack, fStep, FALSE))
    IN Build(StatementCtor(counter, "SAVEPOINT", name, fBegin),
             StatementCtor(GetNextStatementId(counter), "ROLLBACK TO", name, fRollback),
             StatementCtor(GetNextStatementId(GetNextStatementId(counter)),
                           "RELEASE", name, fCommit),
             [NullSavepoint EXCEPT !.m_name = name])

\* Rollback without the in-progress test.
Rollback_Unguarded(S, curDb, curStack, fault) ==
    LET After(r) ==
            [obj |-> [S EXCEPT !.m_rollback = r.stmt,
                               !.m_inProgress = S.m_inProgress /\ r.out \notin {"true", "false"}],
             out |-> IF r.out \in {"true", "false"} THEN "ok" ELSE r.out,
             rc |-> r.rc, db |-> r.db, stack |-> r.stack]
    IN After(Step(S.m_rollback, curDb, curStack, fault, TRUE))

\* Rollback that steps the RELEASE statement.
Rollback_StepsRelease(S, curDb, curStack, fault) ==
    IF S.m_inProgress THEN
        LET After(r) ==
                [obj |-> [S EXCEPT !.m_commit = r.stmt,
                                   !.m_inProgress = r.out \notin {"true", "false"}],
                 out |-> IF r.out \in {"true", "false"} THEN "ok" ELSE r.out,
                 rc |-> r.rc, db |-> r.db, stack |-> r.stack]
        IN After(Step(S.m_commit, curDb, curStack, fault, TRUE))
    ELSE [obj |-> S, out |-> "ok", rc |-> "none",
          db |-> curDb, stack |-> curStack]

\* Savepoint::Rollback: if in progress, step ROLLBACK TO with fail-fast and
\* clear the flag (not reached when the step fails fast).
Rollback(S, curDb, curStack, fault) ==
    IF S.m_inProgress THEN
        LET After(r) ==
                [obj |-> [S EXCEPT !.m_rollback = r.stmt,
                                   !.m_inProgress = r.out \notin {"true", "false"}],
                 out |-> IF r.out \in {"true", "false"} THEN "ok" ELSE r.out,
                 rc |-> r.rc, db |-> r.db, stack |-> r.stack]
        IN After(Step(S.m_rollback, curDb, curStack, fault, TRUE))
    ELSE [obj |-> S, out |-> "ok", rc |-> "none",
          db |-> curDb, stack |-> curStack]

\* Commit that leaves m_inProgress set.
Commit_KeepsInProgress(S, curDb, curStack, fault) ==
    IF S.m_inProgress THEN
        LET After(r) ==
                [obj |-> [S EXCEPT !.m_commit = r.stmt],
                 out |-> IF r.out \in {"true", "false"} THEN "ok" ELSE r.out,
                 rc |-> r.rc, db |-> r.db, stack |-> r.stack]
        IN After(Step(S.m_commit, curDb, curStack, fault, TRUE))
    ELSE [obj |-> S, out |-> "ok", rc |-> "none",
          db |-> curDb, stack |-> curStack]

\* Savepoint::Commit: if in progress, step RELEASE with fail-fast and clear
\* the flag.
Commit(S, curDb, curStack, fault) ==
    IF S.m_inProgress THEN
        LET After(r) ==
                [obj |-> [S EXCEPT !.m_commit = r.stmt,
                                   !.m_inProgress = r.out \notin {"true", "false"}],
                 out |-> IF r.out \in {"true", "false"} THEN "ok" ELSE r.out,
                 rc |-> r.rc, db |-> r.db, stack |-> r.stack]
        IN After(Step(S.m_commit, curDb, curStack, fault, TRUE))
    ELSE [obj |-> S, out |-> "ok", rc |-> "none",
          db |-> curDb, stack |-> curStack]

\* Destructor that steps ROLLBACK TO whatever the state of the savepoint.
SavepointDtor_Unguarded(S, curDb, curStack, fault) ==
    LET Members(r) ==
            IF r.out # "ok" THEN r
            ELSE [r EXCEPT !.obj = [r.obj EXCEPT
                                       !.life = "destroyed",
                                       !.m_commit = Finalize(@),
                                       !.m_rollback = Finalize(@)]]
    IN Members(Rollback([S EXCEPT !.m_inProgress = TRUE], curDb, curStack, fault))

\* Savepoint::~Savepoint: Rollback(), then the members are destroyed.
SavepointDtor(S, curDb, curStack, fault) ==
    LET Members(r) ==
            IF r.out # "ok" THEN r
            ELSE [r EXCEPT !.obj = [r.obj EXCEPT
                                       !.life = "destroyed",
                                       !.m_commit = Finalize(@),
                                       !.m_rollback = Finalize(@)]]
    IN Members(Rollback(S, curDb, curStack, fault))

\* ------------------------------------------------- query Statement calls
\* sqlite3_bind_int: refused (SQLITE_MISUSE) unless the statement is reset;
\* otherwise the value replaces the binding.
sqlite3_bind_int(s, v, fault) ==
    IF s.m_stmt # "live" \/ s.vm # "ready" THEN [rc |-> "SQLITE_MISUSE", bound |-> s.bound]
    ELSE IF fault THEN [rc |-> "SQLITE_IOERR", bound |-> s.bound]
    ELSE [rc |-> "SQLITE_OK", bound |-> v]

\* ParameterSpecificsImpl<int>::Bind: THROW_IF_SQLITE_FAILED(sqlite3_bind_int)
Bind(s, v, fault) ==
    LET Checked(n) ==
            [stmt |-> [s EXCEPT !.bound = n.bound],
             out |-> IF n.rc = "SQLITE_OK" THEN "ok" ELSE "throw",
             rc |-> n.rc,
             error |-> IF n.rc = "SQLITE_OK" THEN "none" ELSE n.rc]
    IN Checked(sqlite3_bind_int(s, v, fault))

\* sqlite3_reset: back to the start of the program, bindings kept; the
\* status repeats the failure of the last step, if any.
sqlite3_reset(s, lastStepFailed) ==
    [rc |-> IF lastStepFailed THEN "SQLITE_ERROR" ELSE "SQLITE_OK",
     vm |-> IF s.m_stmt = "live" THEN "ready" ELSE s.vm,
     delivered |-> IF s.m_stmt = "live" THEN 0 ELSE s.delivered]

\* Reset that throws the native status instead of ignoring it.
Reset_ChecksStatus(s) ==
    LET Checked(n) ==
            IF n.rc # "SQLITE_OK"
            THEN [stmt |-> [s EXCEPT !.vm = n.vm, !.delivered = n.delivered],
                  out |-> "throw", rc |-> n.rc, error |-> n.rc]
            ELSE [stmt |-> [s EXCEPT !.vm = n.vm, !.delivered = n.delivered,
                                     !.m_state = "Prepared"],
                  out |-> "ok", rc |-> n.rc, error |-> "none"]
    IN Checked(sqlite3_reset(s, s.m_state = "Error"))

\* Statement::Reset: native reset, status ignored, state Prepared.
Reset(s) ==
    LET Ignored(n) ==
            [stmt |-> [s EXCEPT !.vm = n.vm, !.delivered = n.delivered,
                                !.m_state = "Prepared",
                                !.usedAfterRelease = @ \/ (s.m_stmt = "finalized")],
             out |-> "ok", rc |-> n.rc, error |-> "none"]
    IN Ignored(sqlite3_reset(s, s.m_state = "Error"))

\* ------------------------------------------- typed parameters and columns
\* text is a sequence of bytes; 0 is the NUL byte, 97 a byte that is not
TextBytes == {0, 97}
Texts == UNION {[1..n -> TextBytes] : n \in 0..MaxTextLen}
Ints == (-(2^(IntBits - 1)))..(2^(IntBits - 1) - 1)
Int64s == (-(2^IntBits))..(2^IntBits - 1)
\* std::string_view: data() is null (default constructed, size 0) or points
\* at size() bytes
NullView == [data |-> "null", bytes |-> << >>]
Views == {NullView} \cup {[data |-> "buffer", bytes |-> t] : t \in Texts}

\* const char*: null, or the address of a buffer
NullPtr == [null |-> TRUE, buf |-> << >>]
PtrTo(b) == [null |-> FALSE, buf |-> b]

\* two's complement value of the low w bits of x
ToSigned(x, w) == ((x + 2^(w - 1)) % (2^w)) - 2^(w - 1)

\* values as the engine stores them
NullValue == [class |-> "NULL", int |-> 0, text |-> << >>]
IntegerValue(n) == [class |-> "INTEGER", int |-> n, text |-> << >>]
TextValue(t) == [class |-> "TEXT", int |-> 0, text |-> t]

\* the statement SELECT ?1, ?2: parameter 1 feeds column 0 (text), parameter
\* 2 feeds column 1 (integer); it yields one row
Params == {1, 2}
Columns == {0, 1}
NotBound == [type |-> "none", v |-> 0]
NoRead == [acc |-> "none", col |-> 0, out |-> "none", v |-> 0]

NullColumns ==
    [life |-> "unborn", s |-> NullStatement,
     slots |-> [p \in Params |-> NullValue],
     converted |-> {},
     \* history kept for the properties: what was bound, and what the
     \* latest reads of the current row returned
     boundAs |-> [p \in Params |-> NotBound],
     read |-> NoRead,
     isNull |-> [c \in Columns |-> "unread"]]

\* sqlite3_bind_*: refused (SQLITE_MISUSE) unless the statement is reset,
\* SQLITE_RANGE for an index that is no parameter; otherwise the value
\* replaces the binding
sqlite3_bind(c, index, value) ==
    IF c.s.m_stmt # "live" \/ c.s.vm # "ready" THEN [rc |-> "SQLITE_MISUSE", slots |-> c.slots]
    ELSE IF index \notin Params THEN [rc |-> "SQLITE_RANGE", slots |-> c.slots]
    ELSE [rc |-> "SQLITE_OK", slots |-> [c.slots EXCEPT ![index] = value]]

\* sqlite3_bind_text64(stmt, index, ptr, n, SQLITE_TRANSIENT, SQLITE_UTF8):
\* a null pointer binds NULL, otherwise the n bytes at ptr are copied
sqlite3_bind_text64(c, index, ptr, n) ==
    sqlite3_bind(c, index, IF ptr.null THEN NullValue
                           ELSE TextValue(SubSeq(ptr.buf, 1, n)))

\* THROW_IF_SQLITE_FAILED around a native bind
BindChecked(c, index, n, type, v) ==
    IF n.rc = "SQLITE_OK"
    THEN [cols |-> [c EXCEPT !.slots = n.slots,
                             !.boundAs[index] = [type |-> type, v |-> v],
                             !.read = NoRead],
          out |-> "ok", rc |-> n.rc, error |-> "none"]
    ELSE [cols |-> c, out |-> "throw", rc |-> n.rc, error |-> n.rc]

\* ParameterSpecificsImpl<nullptr_t>::Bind
BindNull(c, index) ==
    BindChecked(c, index, sqlite3_bind(c, index, NullValue), "null", 0)

\* ParameterSpecificsImpl<std::string>::Bind: v.c_str(), v.size()
BindString(c, index, v) ==
    BindChecked(c, index, sqlite3_bind_text64(c, index, PtrTo(v \o <<0>>), Len(v)),
                "string", v)

\* ParameterSpecificsImpl<std::string_view>::Bind: v.data(), v.size()
BindStringView(c, index, v) ==
    BindChecked(c, index,
                sqlite3_bind_text64(c, index,
                                    IF v.data = "null" THEN NullPtr ELSE PtrTo(v.bytes),
                                    Len(v.bytes)),
                "string_view", v)

\* ParameterSpecificsImpl<int>::Bind: sqlite3_bind_int stores the int as a
\* 64-bit integer of the same value
BindInt(c, index, v) ==
    BindChecked(c, index, sqlite3_bind(c, index, IntegerValue(v)), "int", v)

\* ParameterSpecificsImpl<int64_t>::Bind
BindInt64(c, index, v) ==
    BindChecked(c, index, sqlite3_bind(c, index, IntegerValue(v)), "int64", v)

\* the value the sqlite3_column_* calls see: the column of the current row,
\* NULL when there is no current row or no such column
ColumnValue(c, col) ==
    IF c.s.m_stmt = "live" /\ c.s.vm = "run" /\ col \in Columns
    THEN c.slots[col + 1]
    ELSE NullValue

\* decimal digits of n, as the engine renders an integer as text
RECURSIVE DecimalText(_)
DecimalText(n) ==
    IF n < 0 THEN <<45>> \o DecimalText(-n)
    ELSE IF n < 10 THEN <<48 + n>>
    ELSE DecimalText(n \div 10) \o <<48 + (n % 10)>>

\* integer value of the leading digits of t, as the engine reads text as a
\* number
RECURSIVE LeadingDigits(_, _)
LeadingDigits(t, acc) ==
    IF t = << >> \/ Head(t) \notin 48..57 THEN acc
    ELSE LeadingDigits(Tail(t), 10 * acc + (Head(t) - 48))

\* sqlite3_column_text: null pointer for NULL, else the NUL-terminated text
\* (an integer is rendered in decimal)
sqlite3_column_text(value) ==
    IF value.class = "NULL" THEN NullPtr
    ELSE IF value.class = "INTEGER" THEN PtrTo(DecimalText(value.int) \o <<0>>)
    ELSE PtrTo(value.text \o <<0>>)

\* std::string(const char*): the bytes before the first NUL
RECURSIVE CString(_)
CString(buf) ==
    IF Head(buf) = 0 THEN << >> ELSE <<Head(buf)>> \o CString(Tail(buf))

\* ParameterSpecificsImpl<std::string>::GetColumn: a std::string built from
\* the pointer; from a null pointer the behaviour is undefined (the library
\* throws or the process crashes)
GetColumnString(c, col) ==
    IF sqlite3_column_text(ColumnValue(c, col)).null
    THEN {[out |-> "throw", v |-> << >>], [out |-> "crash", v |-> << >>]}
    ELSE {[out |-> "value", v |-> CString(sqlite3_column_text(ColumnValue(c, col)).buf)]}

\* sqlite3_column_int64: 0 for NULL, the leading number of a text
sqlite3_column_int64(value) ==
    IF value.class = "INTEGER" THEN value.int
    ELSE IF value.class = "TEXT" THEN
        IF value.text # << >> /\ Head(value.text) = 45
        THEN -LeadingDigits(Tail(value.text), 0)
        ELSE LeadingDigits(value.text, 0)
    ELSE 0

\* sqlite3_column_int: the low bits of the 64-bit value
sqlite3_column_int(value) == ToSigned(sqlite3_column_int64(value), IntBits)

\* GetColumn that reads the low bits as an unsigned number.
GetColumnInt_Unsigned(c, col) ==
    {[out |-> "value", v |-> sqlite3_column_int64(ColumnValue(c, col)) % (2^IntBits)]}

\* ParameterSpecificsImpl<int>::GetColumn
GetColumnInt(c, col) ==
    {[out |-> "value", v |-> sqlite3_column_int(ColumnValue(c, col))]}

\* ParameterSpecificsImpl<int64_t>::GetColumn
GetColumnInt64(c, col) ==
    {[out |-> "value", v |-> sqlite3_column_int64(ColumnValue(c, col))]}

\* sqlite3_column_type: the storage class; after a conversion of the column
\* by sqlite3_column_text the result is undefined between the class stored
\* and the class converted to
sqlite3_column_type(c, col) ==
    IF ColumnValue(c, col).class = "NULL" THEN {"SQLITE_NULL"}
    ELSE IF ColumnValue(c, col).class = "INTEGER" THEN
        IF col \in c.converted THEN {"SQLITE_INTEGER", "SQLITE_TEXT"}
        ELSE {"SQLITE_INTEGER"}
    ELSE {"SQLITE_TEXT"}

\* GetColumnIsNull that tests for the text class.
GetColumnIsNull_TestsText(type) == type = "SQLITE_TEXT"

\* Statement::GetColumnIsNull, given what sqlite3_column_type returned
GetColumnIsNull(type) == type = "SQLITE_NULL"

\* ------------------------------------------------------------------ Init
NullQuery ==
    [life |-> "unborn", s |-> NullStatement,
     \* history kept for the properties:
     stepsInCycle |-> 0, falseInCycle |-> 0, lastNative |-> "none"]

\* a thread that is not constructing a Statement
ThreadIds == 1..NumThreads
NullThread == [pc |-> "idle", m_id |-> 0]

\* no Statement::Create overload called yet
NullPrepare ==
    [overloads |-> << >>, owner |-> "none", data |-> << >>, nByte |-> 0,
     size |-> 0, persistent |-> FALSE, m_id |-> 0, m_stmt |-> "null",
     \* history kept for the properties: the SQL text the caller passed
     text |-> << >>, behind |-> 0]

Outcome(op, id, out, rc, error) ==
    [op |-> op, id |-> id, out |-> out, rc |-> rc, error |-> error]

Init ==
    /\ proc = "running"
    /\ conn = NullConnection
    /\ db = {}
    /\ stack = << >>
    /\ statementId = 0
    /\ sp = [i \in SavepointIds |-> NullSavepoint]
    /\ stmt = NullQuery
    /\ nextRow = 1
    /\ threads = [t \in ThreadIds |-> NullThread]
    /\ allocated = << >>
    /\ prepared = NullPrepare
    /\ cols = NullColumns
    /\ last = Outcome("none", 0, "ok", "none", "none")

Running == proc = "running" /\ conn.life = "alive"

InProgressIds == {j \in SavepointIds : sp[j].life = "alive" /\ sp[j].m_inProgress}
AliveIds == {j \in SavepointIds : sp[j].life = "alive"}

\* ------------------------------------------------------ caller's actions
\* auto conn = Connection::Create(...)
CallConnectionCreate(disposition, flags, openRc, handleGiven, extRc) ==
    /\ proc = "running"
    /\ conn.life = "unborn"
    /\ openRc = "SQLITE_OK" => handleGiven
    /\ openRc # "SQLITE_OK" => extRc = "SQLITE_OK"
    /\ \E c \in {ConnectionCreate(disposition, flags, openRc, handleGiven, extRc)} :
          /\ conn' = c.obj
          /\ last' = Outcome("Connection::Create", 0,
                             IF c.thrown THEN "throw" ELSE "ok",
                             "none", c.error)
    /\ UNCHANGED sideVars
    /\ UNCHANGED <<proc, db, stack, statementId, sp, stmt, nextRow>>

\* the connection goes out of scope after everything derived from it
CallConnectionDestroy ==
    /\ Running
    /\ AliveIds = {}
    /\ stmt.life # "alive"
    /\ conn' = [Close(conn) EXCEPT !.life = "destroyed"]
    /\ last' = Outcome("~Connection", 0, "ok", "none", "none")
    /\ UNCHANGED sideVars
    /\ UNCHANGED <<proc, db, stack, statementId, sp, stmt, nextRow>>

\* { auto ins = Statement::Create(conn, "INSERT ..."); ins.Bind(1, row); ins.Step(); }
CallInsert ==
    /\ Running
    /\ nextRow <= MaxRows
    /\ \E ins \in {[StatementCtor(statementId, "INSERT", 0, FALSE) EXCEPT !.bound = nextRow]} :
       \E r \in {Step(ins, db, stack, FALSE, FALSE)} :
          /\ db' = r.db
          /\ stack' = r.stack
          /\ statementId' = ins.m_id
          /\ nextRow' = nextRow + 1
          /\ last' = Outcome("Insert", 0, r.out, r.rc, r.error)
    /\ UNCHANGED sideVars
    /\ UNCHANGED <<proc, conn, sp, stmt>>

CtorFaults == {"none", "begin", "rollback", "commit", "step"}

\* rows inserted since savepoint S was created
RowsSince(S) == {r \in Rows : S.firstRow <= r /\ r < nextRow}

\* auto s = Savepoint::Create(conn, name); the caller keeps the names of the
\* savepoints in progress distinct
CallSavepointCreate(i, n, f) ==
    /\ Running
    /\ sp[i].life = "unborn"
    /\ \A j \in SavepointIds : j < i => sp[j].life # "unborn"
    /\ \A j \in InProgressIds : sp[j].m_name # n
    /\ \E c \in {SavepointCtor(statementId, n, db, stack, f = "begin",
                                f = "rollback", f = "commit", f = "step")} :
          /\ sp' = [sp EXCEPT ![i] = IF c.thrown THEN c.obj
                                      ELSE [c.obj EXCEPT !.pre = db,
                                                         !.firstRow = nextRow]]
          /\ db' = c.db
          /\ stack' = c.stack
          /\ statementId' = c.counter
          /\ last' = Outcome("Savepoint::Create", i,
                             IF c.thrown THEN "throw" ELSE "ok",
                             c.rc, c.error)
    /\ UNCHANGED sideVars
    /\ UNCHANGED <<proc, conn, stmt, nextRow>>

\* s.Commit()
CallCommit(i, fault) ==
    /\ Running
    /\ sp[i].life = "alive"
    /\ \E r \in {Commit(sp[i], db, stack, fault)} :
          /\ sp' = [sp EXCEPT ![i] = [r.obj EXCEPT
                                         !.kept = IF sp[i].m_inProgress /\ r.out = "ok"
                                                  THEN RowsSince(sp[i]) \cap db ELSE @]]
          /\ db' = r.db
          /\ stack' = r.stack
          /\ proc' = IF r.out = "failfast" THEN "terminated" ELSE proc
          /\ last' = Outcome("Commit", i, r.out, r.rc, "none")
    /\ UNCHANGED sideVars
    /\ UNCHANGED <<conn, statementId, stmt, nextRow>>

\* s.Rollback()
CallRollback(i, fault) ==
    /\ Running
    /\ sp[i].life = "alive"
    /\ \E r \in {Rollback(sp[i], db, stack, fault)} :
          /\ sp' = [sp EXCEPT ![i] = r.obj]
          /\ db' = r.db
          /\ stack' = r.stack
          /\ proc' = IF r.out = "failfast" THEN "terminated" ELSE proc
          /\ last' = Outcome("Rollback", i, r.out, r.rc, "none")
    /\ UNCHANGED sideVars
    /\ UNCHANGED <<conn, statementId, stmt, nextRow>>

\* s goes out of scope; objects of one scope die in reverse order of creation
CallSavepointDestroy(i, fault) ==
    /\ Running
    /\ sp[i].life = "alive"
    /\ \A j \in AliveIds : j <= i
    /\ \E r \in {SavepointDtor(sp[i], db, stack, fault)} :
          /\ sp' = [sp EXCEPT ![i] = IF r.out # "ok" THEN r.obj
                                      ELSE [r.obj EXCEPT !.m_name = 0, !.pre = {},
                                                         !.firstRow = 0]]
          /\ db' = r.db
          /\ stack' = r.stack
          /\ proc' = IF r.out = "failfast" THEN "terminated" ELSE proc
          /\ last' = Outcome("~Savepoint", i, r.out, r.rc, "none")
    /\ UNCHANGED sideVars
    /\ UNCHANGED <<conn, statementId, stmt, nextRow>>

\* auto q = Statement::Create(conn, "SELECT ... ?")
CallStatementCreate(fault) ==
    /\ Running
    /\ stmt.life = "unborn"
    /\ \E q \in {StatementCtor(statementId, "SELECT", 0, fault)} :
          /\ stmt' = [NullQuery EXCEPT !.life = IF fault THEN "failed" ELSE "alive",
                                       !.s = q]
          /\ statementId' = q.m_id
          /\ last' = Outcome("Statement::Create", 0,
                             IF fault THEN "throw" ELSE "ok", "none",
                             IF fault THEN "SQLITE_ERROR" ELSE "none")
    /\ UNCHANGED sideVars
    /\ UNCHANGED <<proc, conn, db, stack, sp, nextRow>>

\* q.Bind(1, v)
CallBind(v, fault) ==
    /\ Running
    /\ stmt.life = "alive"
    /\ \E r \in {Bind(stmt.s, v, fault)} :
          /\ stmt' = [stmt EXCEPT !.s = r.stmt]
          /\ last' = Outcome("Bind", 0, r.out, r.rc, r.error)
    /\ UNCHANGED sideVars
    /\ UNCHANGED <<proc, conn, db, stack, statementId, sp, nextRow>>

\* q.Step(failFastOnError)
CallStep(fault, failFastOnError) ==
    /\ Running
    /\ stmt.life = "alive"
    /\ stmt.s.steps < MaxSteps
    /\ \E r \in {Step(stmt.s, db, stack, fault, failFastOnError)} :
          /\ stmt' = [stmt EXCEPT !.s = r.stmt,
                                  !.stepsInCycle = @ + 1,
                                  !.falseInCycle = IF r.out = "false" THEN @ + 1 ELSE @,
                                  !.lastNative = r.rc]
          /\ db' = r.db
          /\ stack' = r.stack
          /\ proc' = IF r.out = "failfast" THEN "terminated" ELSE proc
          /\ last' = Outcome("Step", 0, r.out, r.rc, r.error)
    /\ UNCHANGED sideVars
    /\ UNCHANGED <<conn, statementId, sp, nextRow>>

\* q.Execute(failFastOnError)
CallExecute(fault, failFastOnError) ==
    /\ Running
    /\ stmt.life = "alive"
    /\ stmt.s.steps < MaxSteps
    /\ \E r \in {Execute(stmt.s, db, stack, fault, failFastOnError)} :
          /\ stmt' = [stmt EXCEPT !.s = r.stmt,
                                  !.stepsInCycle = @ + 1,
                                  !.falseInCycle = IF r.out = "ok" THEN @ + 1 ELSE @,
                                  !.lastNative = r.rc]
          /\ db' = r.db
          /\ stack' = r.stack
          /\ proc' = IF r.out = "failfast" THEN "terminated" ELSE proc
          /\ last' = Outcome("Execute", 0, r.out, r.rc, r.error)
    /\ UNCHANGED sideVars
    /\ UNCHANGED <<conn, statementId, sp, nextRow>>

\* q.Reset()
CallReset ==
    /\ Running
    /\ stmt.life = "alive"
    /\ \E r \in {Reset(stmt.s)} :
          /\ stmt' = [stmt EXCEPT !.s = r.stmt,
                                  !.stepsInCycle = IF r.out = "ok" THEN 0 ELSE @,
                                  !.falseInCycle = IF r.out = "ok" THEN 0 ELSE @,
                                  !.lastNative = IF r.out = "ok" THEN "none" ELSE @]
          /\ last' = Outcome("Reset", 0, r.out, r.rc, r.error)
    /\ UNCHANGED sideVars
    /\ UNCHANGED <<proc, conn, db, stack, statementId, sp, nextRow>>

\* q goes out of scope
CallStatementDestroy ==
    /\ Running
    /\ stmt.life = "alive"
    /\ stmt' = [stmt EXCEPT !.life = "destroyed", !.s = Finalize(@)]
    /\ last' = Outcome("~Statement", 0, "ok", "none", "none")
    /\ UNCHANGED sideVars
    /\ UNCHANGED <<proc, conn, db, stack, statementId, sp, nextRow>>

\* ----------------------------------------------- Statements on threads
\* Statement::Statement on thread t, first statement: m_id = GetNextStatementId()
ThreadAllocate(t) ==
    /\ proc = "running"
    /\ threads[t].pc = "idle"
    /\ Len(allocated) <= 2^IdBits
    /\ \E s \in {StatementCtor(statementId, "SELECT", 0, FALSE)} :
          /\ statementId' = s.m_id
          /\ threads' = [threads EXCEPT ![t] = [pc |-> "constructing", m_id |-> s.m_id]]
          /\ allocated' = Append(allocated, s.m_id)
          /\ last' = Outcome("GetNextStatementId", t, "ok", "none", "none")
    /\ UNCHANGED <<proc, conn, db, stack, sp, stmt, nextRow, prepared, cols>>

\* Statement::Statement on thread t, the rest: sqlite3_prepare_v3 succeeds
\* or the constructor throws
ThreadPrepare(t, prepareFails) ==
    /\ proc = "running"
    /\ threads[t].pc = "constructing"
    /\ threads' = [threads EXCEPT ![t] = NullThread]
    /\ last' = Outcome("Statement::Create", t,
                       IF prepareFails THEN "throw" ELSE "ok", "none",
                       IF prepareFails THEN "SQLITE_ERROR" ELSE "none")
    /\ UNCHANGED <<proc, conn, db, stack, statementId, sp, stmt, nextRow,
                   allocated, prepared, cols>>

\* ------------------------------------------------- Statement::Create
\* std::string_view: size bytes at offset off of a buffer; owner tells whose
\* buffer it is ("caller" or the "copy" made inside Create)
StringView(owner, buf, off, size) ==
    [owner |-> owner, buf |-> buf, off |-> off, size |-> size]

\* sql.data()[k]; -1 stands for whatever lies outside the buffer
ByteAt(sql, k) ==
    IF sql.off + k + 1 <= Len(sql.buf) THEN sql.buf[sql.off + k + 1] ELSE -1

\* Statement::Statement(connection, sql, persistent): take an id, then
\* sqlite3_prepare_v3(connection, sql.data(), sql.size() + 1, flags, ...);
\* the record keeps what the native prepare was given
StatementCtorSql(counter, sql, persistent, path, prepareFails) ==
    [NullPrepare EXCEPT
        !.m_id = GetNextStatementId(counter),
        !.overloads = path,
        !.owner = sql.owner,
        !.data = [k \in 1..(sql.size + 1) |-> ByteAt(sql, k - 1)],
        !.nByte = sql.size + 1,
        !.size = sql.size,
        !.persistent = persistent,
        !.m_stmt = IF prepareFails THEN "null" ELSE "live"]

\* Statement::Create(connection, const std::string& sql, persistent):
\* { sql.c_str(), sql.size() }; str is the string object, whose buffer ends
\* with a NUL
CreateString(counter, str, persistent, path, prepareFails) ==
    StatementCtorSql(counter,
                     StringView(str.owner, str.bytes \o <<0>>, 0, Len(str.bytes)),
                     persistent, Append(path, "const std::string&"), prepareFails)

\* Create for a view that compiles against the caller's buffer.
CreateStringView_NoCopy(counter, sql, persistent, prepareFails) ==
    StatementCtorSql(counter, sql, persistent, <<"std::string_view">>, prepareFails)

\* Statement::Create(connection, std::string_view sql, persistent):
\* Create(connection, std::string(sql), persistent), which is the overload
\* for const std::string&
CreateStringView(counter, sql, persistent, prepareFails) ==
    CreateString(counter,
                 [owner |-> "copy",
                  bytes |-> SubSeq(sql.buf, sql.off + 1, sql.off + sql.size)],
                 persistent, <<"std::string_view">>, prepareFails)

\* Statement::Create(connection, char const* const sql, persistent): the
\* pointer converts to a view of strlen(sql) bytes of the caller's buffer
CreateLiteral(counter, buf, persistent, prepareFails) ==
    StatementCtorSql(counter, StringView("caller", buf, 0, Len(CString(buf))),
                     persistent, <<"char const*">>, prepareFails)

\* the caller saw the Statement p, or the error of its prepare
Created(p, text, behind) ==
    /\ Running
    /\ prepared' = [p EXCEPT !.text = text, !.behind = behind]
    /\ statementId' = p.m_id
    /\ last' = Outcome("Statement::Create", 0,
                       IF p.m_stmt = "null" THEN "throw" ELSE "ok", "none",
                       IF p.m_stmt = "null" THEN "SQLITE_ERROR" ELSE "none")
    /\ UNCHANGED <<proc, conn, db, stack, sp, stmt, nextRow, threads, allocated, cols>>

\* Statement::Create(conn, sql) with a std::string
CallCreateString(sql, persistent, prepareFails) ==
    Created(CreateString(statementId, [owner |-> "caller", bytes |-> sql],
                         persistent, << >>, prepareFails),
            sql, 0)

\* Statement::Create(conn, sql) with a view of size bytes at offset off of
\* the caller's buffer
CallCreateStringView(buf, off, size, persistent, prepareFails) ==
    /\ off + size <= Len(buf)
    /\ Created(CreateStringView(statementId, StringView("caller", buf, off, size),
                                persistent, prepareFails),
               SubSeq(buf, off + 1, off + size),
               ByteAt(StringView("caller", buf, off, size), size))

\* Statement::Create(conn, "...") with a NUL-terminated character array
CallCreateLiteral(sql, persistent, prepareFails) ==
    Created(CreateLiteral(statementId, sql \o <<0>>, persistent, prepareFails),
            CString(sql \o <<0>>), 0)

\* ------------------------------------------------ typed Statement calls
\* auto q = Statement::Create(conn, "SELECT ?1, ?2")
CallColumnsCreate ==
    /\ Running
    /\ cols.life = "unborn"
    /\ \E q \in {[StatementCtor(statementId, "SELECT", 0, FALSE) EXCEPT !.bound = 1]} :
          /\ cols' = [NullColumns EXCEPT !.life = "alive", !.s = q]
          /\ statementId' = q.m_id
    /\ last' = Outcome("Statement::Create", 0, "ok", "none", "none")
    /\ UNCHANGED <<proc, conn, db, stack, sp, stmt, nextRow, threads, allocated, prepared>>

\* the caller saw r from a Bind
Bound(r) ==
    /\ cols' = r.cols
    /\ last' = Outcome("Bind", 0, r.out, r.rc, r.error)
    /\ UNCHANGED <<proc, conn, db, stack, statementId, sp, stmt, nextRow,
                   threads, allocated, prepared>>

\* q.Bind(p, nullptr)
CallBindNull(p) ==
    Running /\ cols.life = "alive" /\ Bound(BindNull(cols, p))

\* q.Bind(p, std::string)
CallBindString(p, v) ==
    Running /\ cols.life = "alive" /\ Bound(BindString(cols, p, v))

\* q.Bind(p, std::string_view)
CallBindStringView(p, v) ==
    Running /\ cols.life = "alive" /\ Bound(BindStringView(cols, p, v))

\* q.Bind(p, int)
CallBindInt(p, v) ==
    Running /\ cols.life = "alive" /\ Bound(BindInt(cols, p, v))

\* q.Bind(p, int64_t)
CallBindInt64(p, v) ==
    Running /\ cols.life = "alive" /\ Bound(BindInt64(cols, p, v))

\* q.Step(), until it has returned false
CallColumnsStep ==
    /\ Running
    /\ cols.life = "alive"
    /\ cols.s.m_state \in {"Prepared", "HasRow"}
    /\ \E r \in {Step(cols.s, db, stack, FALSE, FALSE)} :
          /\ cols' = [cols EXCEPT !.s = r.stmt, !.converted = {},
                                  !.read = NoRead,
                                  !.isNull = [c \in Columns |-> "unread"]]
          /\ last' = Outcome("Step", 0, r.out, r.rc, r.error)
    /\ UNCHANGED <<proc, conn, db, stack, statementId, sp, stmt, nextRow,
                   threads, allocated, prepared>>

\* the caller saw g from GetColumn<acc>(col)
Got(acc, col, g) ==
    /\ cols' = [cols EXCEPT !.read = [acc |-> acc, col |-> col,
                                      out |-> g.out, v |-> g.v],
                            !.isNull = [c \in Columns |-> "unread"],
                            !.converted =
                                IF acc = "string" /\ ColumnValue(cols, col).class = "INTEGER"
                                THEN @ \cup {col} ELSE @]
    /\ proc' = IF g.out = "crash" THEN "terminated" ELSE proc
    /\ last' = Outcome("GetColumn", 0, g.out, "none", "none")
    /\ UNCHANGED <<conn, db, stack, statementId, sp, stmt, nextRow,
                   threads, allocated, prepared>>

\* q.GetColumn<std::string>(col)
CallGetColumnString(col) ==
    /\ Running /\ cols.life = "alive"
    /\ \E g \in GetColumnString(cols, col) : Got("string", col, g)

\* q.GetColumn<int>(col)
CallGetColumnInt(col) ==
    /\ Running /\ cols.life = "alive"
    /\ \E g \in GetColumnInt(cols, col) : Got("int", col, g)

\* q.GetColumn<int64_t>(col)
CallGetColumnInt64(col) ==
    /\ Running /\ cols.life = "alive"
    /\ \E g \in GetColumnInt64(cols, col) : Got("int64", col, g)

\* q.GetColumnIsNull(col)
CallGetColumnIsNull(col) ==
    /\ Running
    /\ cols.life = "alive"
    /\ \E type \in sqlite3_column_type(cols, col) :
          /\ cols' = [cols EXCEPT !.isNull[col] =
                                      IF GetColumnIsNull(type) THEN "true" ELSE "false",
                                  !.read = NoRead]
          /\ last' = Outcome("GetColumnIsNull", col, "ok", type, "none")
    /\ UNCHANGED <<proc, conn, db, stack, statementId, sp, stmt, nextRow,
                   threads, allocated, prepared>>

\* ------------------------------------------------------- specifications
\* Spec: savepoints on a healthy engine (no native fault is injected; the
\* engine still refuses a ROLLBACK TO or RELEASE of a savepoint that is not
\* open).
Next ==
    \/ CallConnectionCreate(SQLITE_OPEN_READWRITE, 0, "SQLITE_OK", TRUE, "SQLITE_OK")
    \/ CallConnectionDestroy
    \/ CallInsert
    \/ \E i \in SavepointIds, n \in Names : CallSavepointCreate(i, n, "none")
    \/ \E i \in SavepointIds : CallCommit(i, FALSE)
    \/ \E i \in SavepointIds : CallRollback(i, FALSE)
    \/ \E i \in SavepointIds : CallSavepointDestroy(i, FALSE)

Spec == Init /\ [][Next]_vars

\* SpecFaults: the same calls with native faults injected at every native
\* call, on fewer Savepoint objects.
FaultySavepointIds == {i \in SavepointIds : i <= MaxFaultySavepoints}

NextFaults ==
    \/ \E o \in {"SQLITE_OK", "SQLITE_CANTOPEN"}, h \in BOOLEAN, e \in ExtCodes :
            CallConnectionCreate(SQLITE_OPEN_READWRITE, 0, o, h, e)
    \/ CallConnectionDestroy
    \/ CallInsert
    \/ \E i \in FaultySavepointIds, n \in Names, f \in CtorFaults :
            CallSavepointCreate(i, n, f)
    \/ \E i \in FaultySavepointIds, fault \in BOOLEAN : CallCommit(i, fault)
    \/ \E i \in FaultySavepointIds, fault \in BOOLEAN : CallRollback(i, fault)
    \/ \E i \in FaultySavepointIds, fault \in BOOLEAN : CallSavepointDestroy(i, fault)

SpecFaults == Init /\ [][NextFaults]_vars

\* SpecStmt: one query Statement on a connection, every native call may
\* fail.
NextStmt ==
    \/ CallConnectionCreate(SQLITE_OPEN_READWRITE, 0, "SQLITE_OK", TRUE, "SQLITE_OK")
    \/ CallConnectionDestroy
    \/ \E fault \in BOOLEAN : CallStatementCreate(fault)
    \/ \E v \in 0..MaxBind, fault \in BOOLEAN : CallBind(v, fault)
    \/ \E fault, ff \in BOOLEAN : CallStep(fault, ff)
    \/ \E fault, ff \in BOOLEAN : CallExecute(fault, ff)
    \/ CallReset
    \/ CallStatementDestroy

SpecStmt == Init /\ [][NextStmt]_vars

\* SpecOpen: connections opened with every disposition and flag mask, every
\* native status of the two calls.
OpenMasks == 0..(2^FlagBits - 1)

NextOpen ==
    \/ \E d, f \in OpenMasks, o \in OpenCodes, h \in BOOLEAN, e \in ExtCodes :
            CallConnectionCreate(d, f, o, h, e)
    \/ CallConnectionDestroy

SpecOpen == Init /\ [][NextOpen]_vars

\* SpecIds: threads, each on a connection of its own, creating Statements
\* in any interleaving; every prepare may fail.
NextIds ==
    \/ \E t \in ThreadIds : ThreadAllocate(t)
    \/ \E t \in ThreadIds, fails \in BOOLEAN : ThreadPrepare(t, fails)

SpecIds == Init /\ [][NextIds]_vars

\* SpecPrepare: the first Statement of a connection created through each
\* overload from every SQL text, the view overload from every part of every
\* buffer.
Buffers == UNION {[1..n -> TextBytes] : n \in 0..(MaxTextLen + 1)}

NextPrepare ==
    \/ CallConnectionCreate(SQLITE_OPEN_READWRITE, 0, "SQLITE_OK", TRUE, "SQLITE_OK")
    \/ /\ prepared = NullPrepare
       /\ \E sql \in Texts, p, f \in BOOLEAN : CallCreateString(sql, p, f)
    \/ /\ prepared = NullPrepare
       /\ \E buf \in Buffers, off, size \in 0..(MaxTextLen + 1), p, f \in BOOLEAN :
              CallCreateStringView(buf, off, size, p, f)
    \/ /\ prepared = NullPrepare
       /\ \E sql \in Texts, p, f \in BOOLEAN : CallCreateLiteral(sql, p, f)

SpecPrepare == Init /\ [][NextPrepare]_vars

\* SpecColumns: one Statement with a text and an integer parameter, bound
\* with values of every supported type, stepped, and read back.
NextColumns ==
    \/ CallConnectionCreate(SQLITE_OPEN_READWRITE, 0, "SQLITE_OK", TRUE, "SQLITE_OK")
    \/ CallColumnsCreate
    \/ \E p \in Params : CallBindNull(p)
    \/ \E v \in Texts : CallBindString(1, v)
    \/ \E v \in Views : CallBindStringView(1, v)
    \/ \E v \in Ints : CallBindInt(2, v)
    \/ \E v \in Int64s : CallBindInt64(2, v)
    \/ CallColumnsStep
    \/ \E col \in Columns : CallGetColumnString(col)
    \/ \E col \in Columns : CallGetColumnInt(col)
    \/ \E col \in Columns : CallGetColumnInt64(col)
    \/ \E col \in Columns : CallGetColumnIsNull(col)

SpecColumns == Init /\ [][NextColumns]_vars

\* ---------------------------------------------------------------- claims
InProgress(S) == S.life = "alive" /\ S.m_inProgress
Committed(S) == S.m_commit.m_state = "Completed"
RolledBack(S) == S.m_rollback.m_state = "Completed"
Terminal(S) == S.life = "alive" /\ ~S.m_inProgress

\* C1: a Savepoint that is still in progress when its scope ends (neither
\* Commit() nor Rollback() took effect on it before) steps ROLLBACK TO
\* exactly once, never RELEASE, and the contents visible on the connection
\* afterwards are the contents from just before it was created. Stated for
\* a Savepoint whose name no other living Savepoint carries.
C1_ScopeEndRestoresContents ==
    [][\A i \in SavepointIds :
          (/\ InProgress(sp[i])
           /\ sp'[i].life = "destroyed"
           /\ \A j \in AliveIds \ {i} : sp[j].m_name # sp[i].m_name)
              => /\ sp'[i].m_rollback.steps = 1
                 /\ sp'[i].m_commit.steps = 0
                 /\ db' = sp[i].pre]_vars

\* C2: for every Savepoint, RELEASE and ROLLBACK TO together are executed
\* at most once while it lives, and exactly once when it has been destroyed.
EndSteps(S) == S.m_rollback.steps + S.m_commit.steps

C2_ExactlyOneEnd ==
    \A i \in SavepointIds :
        /\ EndSteps(sp[i]) <= 1
        /\ sp[i].life = "destroyed" => EndSteps(sp[i]) = 1

C2_Witness ==
    \E i, j \in SavepointIds :
        /\ sp[i].life = "destroyed" /\ sp[i].m_commit.steps = 1
        /\ sp[j].life = "destroyed" /\ sp[j].m_rollback.steps = 1

RollbackToSteppedByOther(i) ==
    \E j \in SavepointIds \ {i} : sp'[j].m_rollback.steps # sp[j].m_rollback.steps

C4_TerminalCallsDoNothing ==
    [][\A i \in SavepointIds :
          (/\ Terminal(sp[i])
           /\ last'.id = i
           /\ last'.op \in {"Commit", "Rollback", "~Savepoint"})
              => /\ db' = db
                 /\ stack' = stack
                 /\ proc' = "running"
                 /\ last'.out = "ok"
                 /\ last'.rc = "none"
                 /\ sp'[i].m_inProgress = FALSE
                 /\ sp'[i].m_rollback.steps = sp[i].m_rollback.steps
                 /\ sp'[i].m_commit.steps = sp[i].m_commit.steps
                 /\ sp'[i].m_rollback.m_state = sp[i].m_rollback.m_state
                 /\ sp'[i].m_commit.m_state = sp[i].m_commit.m_state
                 /\ \A j \in SavepointIds \ {i} : sp'[j] = sp[j]]_vars

C4_Witness ==
    /\ last.op = "Commit"
    /\ last.id \in SavepointIds
    /\ Terminal(sp[last.id])
    /\ RolledBack(sp[last.id])
    /\ sp[last.id].m_commit.steps = 0

\* C5: when an inner Savepoint, created while the outer one was in progress,
\* has committed and the outer one then rolls back (explicitly or by scope
\* end), no row written since the outer one was created is in the contents.
C5_OuterRollbackUndoesInnerCommit ==
    [][\A o, i \in SavepointIds :
          (/\ o < i
           /\ InProgress(sp[o])
           /\ Committed(sp[i])
           /\ last'.id = o
           /\ last'.op \in {"Rollback", "~Savepoint"}
           /\ ~sp'[o].m_inProgress)
              => db' \cap RowsSince(sp[o]) = {}]_vars

C5_Witness ==
    \E o, i \in SavepointIds :
        /\ o < i
        /\ last.id = o
        /\ last.op \in {"Rollback", "~Savepoint"}
        /\ RolledBack(sp[o])
        /\ Committed(sp[i])
        /\ sp[i].kept # {}
        /\ sp[i].kept \cap db = {}

\* C6: every native handle that was acquired is released exactly once and
\* never used after its release: a statement handle is finalized at most
\* once, is not live once its owner is gone (destroyed, or failed in its
\* constructor), and the connection handle likewise.
HandleReleasedOnce(s, ownerGone) ==
    /\ s.finalized <= 1
    /\ (s.m_stmt = "finalized") <=> (s.finalized = 1)
    /\ ~s.usedAfterRelease
    /\ ownerGone => s.m_stmt # "live"

C6_HandlesReleasedOnce ==
    /\ conn.closes <= 1
    /\ (conn.m_dbconn = "closed") <=> (conn.closes = 1)
    /\ conn.life \in {"failed", "destroyed"} => conn.m_dbconn # "open"
    /\ \A i \in SavepointIds :
          LET gone == sp[i].life \in {"failed", "destroyed"}
          IN /\ HandleReleasedOnce(sp[i].begin, sp[i].life # "unborn")
             /\ HandleReleasedOnce(sp[i].m_rollback, gone)
             /\ HandleReleasedOnce(sp[i].m_commit, gone)
    /\ HandleReleasedOnce(stmt.s, stmt.life \in {"failed", "destroyed"})

C6_Witness ==
    /\ conn.life = "destroyed"
    /\ conn.closes = 1
    /\ \E i \in SavepointIds :
          /\ sp[i].life = "failed"
          /\ sp[i].begin.m_state = "Error"
          /\ sp[i].begin.finalized = 1
          /\ sp[i].m_rollback.finalized = 1
          /\ sp[i].m_commit.finalized = 1

\* C7: a native failure of ROLLBACK TO or RELEASE in Rollback(), Commit() or
\* the destructor terminates the process and is never thrown; a failing
\* Step(false) (the SAVEPOINT step of the constructor) is thrown with the
\* native status, leaves the statement in state Error, and the process
\* runs on; the process terminates nowhere else.
SavepointEndOps == {"Commit", "Rollback", "~Savepoint"}

C7_FailFastOnlyAtSavepointEnd ==
    /\ (last.op \in SavepointEndOps /\ last.rc \in ErrorCodes)
          => /\ proc = "terminated"
             /\ last.out = "failfast"
             /\ last.error = "none"
    /\ (last.op = "Savepoint::Create" /\ last.rc \in ErrorCodes)
          => /\ proc = "running"
             /\ last.out = "throw"
             /\ last.error = last.rc
             /\ sp[last.id].begin.m_state = "Error"
    /\ proc = "terminated"
          => (last.op \in SavepointEndOps /\ last.rc \in ErrorCodes)

C7_Witness ==
    /\ proc = "terminated"
    /\ last.op = "~Savepoint"
    /\ last.rc = "SQLITE_IOERR"
    /\ \E j \in SavepointIds :
          sp[j].life = "failed" /\ sp[j].begin.m_state = "Error"

\* C8: Step returns true exactly when the native step reported ROW, and the
\* state is then HasRow; false exactly when it reported DONE, and the state
\* is then Completed; on any other status it returns nothing and the state
\* is Error. The state tag is the class of the last native step result
\* since creation or the last Reset.
StateOf(rc) ==
    IF rc = "none" THEN "Prepared"
    ELSE IF rc = "SQLITE_ROW" THEN "HasRow"
    ELSE IF rc = "SQLITE_DONE" THEN "Completed"
    ELSE "Error"

C8_StepResultFollowsNativeStatus ==
    /\ last.op = "Step"
          => /\ (last.out = "true") <=> (last.rc = "SQLITE_ROW")
             /\ (last.out = "false") <=> (last.rc = "SQLITE_DONE")
             /\ last.rc \notin StepCodes => last.out \in {"throw", "failfast"}
             /\ stmt.lastNative = last.rc
    /\ stmt.life = "alive" => stmt.s.m_state = StateOf(stmt.lastNative)

C8_Witness ==
    /\ last.op = "Step"
    /\ last.out = "true"
    /\ stmt.s.m_state = "HasRow"
    /\ stmt.falseInCycle = 1
    /\ stmt.stepsInCycle = 3

\* C9 as claimed: between creation or a Reset() and the next Reset(), Step()
\* returns false at most once.
C9_FalseOncePerCycle == stmt.falseInCycle <= 1

\* C9 amended: the Step() that finds the running statement with no row left
\* returns false and leaves the state Completed.
C9_ExhaustingStepReturnsFalse ==
    [][(/\ last'.op = "Step"
        /\ stmt' # stmt
        /\ stmt.s.vm # "halt"
        /\ stmt.s.delivered = QueryRows(stmt.s)
        /\ last'.rc \notin ErrorCodes)
          => /\ last'.out = "false"
             /\ stmt'.s.m_state = "Completed"
             /\ stmt'.falseInCycle = stmt.falseInCycle + 1]_vars

C9_Witness ==
    /\ last.op = "Step"
    /\ last.out = "false"
    /\ stmt.s.m_state = "Completed"
    /\ stmt.s.bound = 1
    /\ stmt.stepsInCycle = 2
    /\ stmt.falseInCycle = 1

\* C10: Reset() from any state leaves the state Prepared, returns normally
\* whatever the native reset reports, and keeps the bound value, so that the
\* next Step() runs the statement from its start with that value.
C10_ResetKeepsBindings ==
    [][(last'.op = "Reset" /\ stmt.life = "alive")
          => /\ stmt'.s.m_state = "Prepared"
             /\ last'.out = "ok"
             /\ proc' = "running"
             /\ stmt'.s.bound = stmt.s.bound
             /\ Step(stmt'.s, db', stack', FALSE, FALSE).out
                    = IF QueryRows(stmt.s) > 0 THEN "true" ELSE "false"]_vars

C10_Witness ==
    /\ last.op = "Reset"
    /\ last.rc = "SQLITE_ERROR"
    /\ stmt.s.m_state = "Prepared"
    /\ stmt.s.bound = MaxBind

\* C11: Execute() steps the statement exactly once; it returns normally
\* exactly when that step reported DONE, and the state is then Completed; on
\* a row it throws E_UNEXPECTED, which is no native step status, and leaves
\* the state HasRow; on a native failure the caller sees what Step gives:
\* the native status thrown, or the process terminated under fail-fast.
C11_ExecuteStepsOnce ==
    [][(last'.op = "Execute" /\ stmt.life = "alive")
          => /\ stmt'.s.steps = stmt.s.steps + 1
             /\ (last'.out = "ok") <=> (last'.rc = "SQLITE_DONE")
             /\ last'.out = "ok" => stmt'.s.m_state = "Completed"
             /\ last'.rc = "SQLITE_ROW"
                   => /\ last'.out = "throw"
                      /\ last'.error = "E_UNEXPECTED"
                      /\ last'.error \notin ErrorCodes
                      /\ stmt'.s.m_state = "HasRow"
                      /\ proc' = "running"
             /\ last'.rc \in ErrorCodes
                   => /\ stmt'.s.m_state = "Error"
                      /\ \/ last'.out = "throw" /\ last'.error = last'.rc
                                                /\ proc' = "running"
                         \/ last'.out = "failfast" /\ proc' = "terminated"
                      /\ \E f, ff \in BOOLEAN :
                            /\ Step(stmt.s, db, stack, f, ff).rc = last'.rc
                            /\ Step(stmt.s, db, stack, f, ff).out = last'.out
                            /\ Step(stmt.s, db, stack, f, ff).error = last'.error]_vars

C11_Witness ==
    /\ last.op = "Execute"
    /\ last.rc = "SQLITE_ROW"
    /\ last.error = "E_UNEXPECTED"
    /\ stmt.s.m_state = "HasRow"
    /\ stmt.falseInCycle = 1

\* C12: Connection::Create calls the native open once with the bitwise or
\* of disposition and flags; it enables extended result codes only after a
\* successful open; the caller gets a Connection exactly when both calls
\* reported SQLITE_OK, and otherwise an error carrying the status of the
\* call that failed, and no Connection.
Bit(x, k) == (x \div (2^k)) % 2 = 1

C12_CreateOpensThenEnables ==
    last.op = "Connection::Create"
        => /\ conn.openCalls = 1
           /\ conn.resultingFlags \in OpenMasks
           /\ \A k \in 0..(FlagBits - 1) :
                  Bit(conn.resultingFlags, k)
                      <=> (Bit(conn.disposition, k) \/ Bit(conn.flags, k))
           /\ conn.extCalls = IF conn.openRc = "SQLITE_OK" THEN 1 ELSE 0
           /\ (conn.life = "alive")
                  <=> (conn.openRc = "SQLITE_OK" /\ conn.extRc = "SQLITE_OK")
           /\ conn.life = "alive" => last.out = "ok" /\ conn.m_dbconn = "open"
           /\ conn.openRc # "SQLITE_OK"
                  => /\ conn.life = "failed"
                     /\ last.out = "throw"
                     /\ last.error = conn.openRc
           /\ (conn.openRc = "SQLITE_OK" /\ conn.extRc # "SQLITE_OK")
                  => /\ conn.life = "failed"
                     /\ last.out = "throw"
                     /\ last.error = conn.extRc

C12_Witness ==
    /\ last.op = "Connection::Create"
    /\ conn.disposition = 6
    /\ conn.flags = 3
    /\ conn.resultingFlags = 7
    /\ conn.openRc = "SQLITE_OK"
    /\ conn.extRc = "SQLITE_MISUSE"
    /\ last.error = "SQLITE_MISUSE"

\* C13: Savepoint::Create has prepared ROLLBACK TO and RELEASE whenever
\* SAVEPOINT has been stepped; when a prepare or the SAVEPOINT step fails, the
\* call throws a native error with the process running, the engine's
\* savepoint stack and contents are what they were before the call, and the
\* failed Savepoint never steps ROLLBACK TO or RELEASE; when nothing fails,
\* the savepoint is pushed and the caller has the Savepoint.
C13_FailedCreateOpensNothing ==
    [][\A i \in SavepointIds :
          /\ sp'[i].begin.steps > 0
                => /\ sp'[i].begin.steps = 1
                   /\ sp'[i].m_rollback.m_stmt # "null"
                   /\ sp'[i].m_commit.m_stmt # "null"
          /\ (last'.op = "Savepoint::Create" /\ last'.id = i /\ sp[i].life = "unborn")
                => IF last'.out = "throw"
                   THEN /\ sp'[i].life = "failed"
                        /\ last'.error \in ErrorCodes
                        /\ proc' = "running"
                        /\ stack' = stack
                        /\ db' = db
                        /\ \/ sp'[i].begin.m_state = "Error"
                           \/ \E t \in {sp'[i].begin, sp'[i].m_rollback, sp'[i].m_commit} :
                                 t.m_id # 0 /\ t.m_stmt = "null"
                   ELSE /\ sp'[i].life = "alive"
                        /\ sp'[i].begin.m_state = "Completed"
                        /\ stack' = Append(stack, [name |-> sp'[i].m_name, snap |-> db])
          /\ sp'[i].life = "failed"
                => /\ sp'[i].m_rollback.steps = 0
                   /\ sp'[i].m_commit.steps = 0]_vars

C13_Witness ==
    /\ last.op = "Savepoint::Create"
    /\ last.out = "throw"
    /\ last.rc = "SQLITE_IOERR"
    /\ sp[2].life = "failed"
    /\ sp[2].begin.m_state = "Error"
    /\ sp[1].life = "failed"
    /\ sp[1].m_commit.m_id # 0
    /\ sp[1].m_commit.m_stmt = "null"
    /\ sp[1].m_rollback.m_stmt = "finalized"

\* C14 as claimed: the ids handed out are strictly increasing in the order
\* of allocation, whatever the interleaving and whether or not the prepare
\* that follows succeeds; so no id is handed out twice.
C14_IdsStrictlyIncreasing ==
    \A i, j \in 1..Len(allocated) : i < j => allocated[i] < allocated[j]

\* C14 amended: the same, for the first 2^IdBits - 1 allocations of the
\* process, that is until the counter wraps around to 0.
C14_IdsIncreasingUntilWrap ==
    \A i, j \in 1..Len(allocated) :
        (i < j /\ j < 2^IdBits) => allocated[i] < allocated[j]

C14_Witness ==
    /\ last.op = "Statement::Create"
    /\ last.out = "throw"
    /\ last.id = 1
    /\ threads[2].pc = "constructing"
    /\ Len(allocated) = 2^IdBits - 1
    /\ threads[2].m_id < allocated[Len(allocated)]

\* C15 as claimed, every value of a supported type taken as round-trip
\* compatible: a value bound as std::string, std::string_view, int or
\* int64_t and read from the row with the accessor of its type (std::string
\* for both text types) comes back equal.
Matching(type) ==
    IF type \in {"string", "string_view"} THEN "string" ELSE type

BytesOf(b) == IF b.type = "string_view" THEN b.v.bytes ELSE b.v

ReadBack(b, k) ==
    /\ k.out = "value"
    /\ k.v = BytesOf(b)

ReadOfBound(col) ==
    /\ cols.life = "alive"
    /\ cols.s.m_state = "HasRow"
    /\ cols.read.acc # "none"
    /\ cols.read.col = col
    /\ cols.boundAs[col + 1].type \in {"string", "string_view", "int", "int64"}
    /\ cols.read.acc = Matching(cols.boundAs[col + 1].type)

RoundTripCompatible(b) ==
    /\ b.type \in {"string", "string_view"} => \A k \in 1..Len(BytesOf(b)) : BytesOf(b)[k] # 0
    /\ b.type = "string_view" => b.v.data # "null"

C16_IsNullIffStoredNull ==
    \A col \in Columns :
        (cols.life = "alive" /\ cols.s.m_state = "HasRow" /\ cols.isNull[col] # "unread")
            => /\ (cols.isNull[col] = "true") <=> (cols.slots[col + 1].class = "NULL")
               /\ cols.boundAs[col + 1].type = "null" => cols.isNull[col] = "true"
               /\ cols.boundAs[col + 1].type \in {"int", "int64", "string"}
                     => cols.isNull[col] = "false"

C16_Witness ==
    /\ cols.s.m_state = "HasRow"
    /\ cols.boundAs[1].type = "null"
    /\ cols.boundAs[2].type = "int"
    /\ cols.isNull[0] = "true"
    /\ cols.isNull[1] = "false"
    /\ 1 \in cols.converted

\* C17: on a healthy engine, with Savepoints of pairwise distinct names
\* destroyed in reverse order of creation, no sequence of Commit() and
\* Rollback() calls and scope ends terminates the process.
DistinctNames ==
    \A i, j \in SavepointIds :
        (i # j /\ sp[i].life # "unborn" /\ sp[j].life # "unborn")
            => sp[i].m_name # sp[j].m_name

C17_NoFailFastWithDistinctNames == DistinctNames => proc = "running"

\* C18: the step in which a Savepoint in progress becomes terminal
\* (Commit(), Rollback() or its destruction) leaves the engine's savepoint
\* stack as it was below that Savepoint's own savepoint, that is as it was
\* just before the Savepoint was created.
C18_TerminalRestoresStack ==
    [][\A i \in SavepointIds :
          (/\ InProgress(sp[i])
           /\ sp'[i].life \in {"alive", "destroyed"}
           /\ ~sp'[i].m_inProgress
           /\ FindSavepoint(stack, sp[i].m_name) > 0)
              => stack' = SubSeq(stack, 1, FindSavepoint(stack, sp[i].m_name) - 1)]_vars

\* C19: whichever overload of Statement::Create is called, the native
\* prepare is given size + 1 bytes, the SQL text followed by a NUL at offset
\* size; the overload for a view gives it a copy, not the caller's buffer,
\* and gets there through the overload for const std::string&, entered
\* once; the other two give it the caller's buffer directly.
C19_PrepareGetsTerminatedBuffer ==
    prepared.overloads # << >>
        => /\ prepared.nByte = prepared.size + 1
           /\ Len(prepared.data) = prepared.nByte
           /\ prepared.data[prepared.size + 1] = 0
           /\ prepared.size = Len(prepared.text)
           /\ SubSeq(prepared.data, 1, prepared.size) = prepared.text
           /\ Head(prepared.overloads) = "std::string_view"
                  => /\ prepared.owner = "copy"
                     /\ prepared.overloads = <<"std::string_view", "const std::string&">>
           /\ Head(prepared.overloads) = "const std::string&"
                  => /\ prepared.owner = "caller"
                     /\ Len(prepared.overloads) = 1
           /\ Head(prepared.overloads) = "char const*"
                  => /\ prepared.owner = "caller"
                     /\ Len(prepared.overloads) = 1

C19_Witness ==
    /\ prepared.overloads # << >>
    /\ Head(prepared.overloads) = "std::string_view"
    /\ prepared.text = <<97>>
    /\ prepared.behind = 97
    /\ prepared.data = <<97, 0>>
    /\ prepared.owner = "copy"
    /\ prepared.persistent

====
